---- MODULE Spec2Model ----
(***************************************************************************)
(* Model of fastapi_auditor.py: the route extractor (analyze_routes), the  *)
(* scorer (score_route) and the analyze command (analyze_command).         *)
(*                                                                         *)
(* Text is modelled character by character: a Python str is a sequence of  *)
(* one-character strings, indexed from 0 through At and Slice, so that the *)
(* regular expressions and the parenthesis scan are computed as the code   *)
(* computes them.                                                          *)
(***************************************************************************)
EXTENDS Integers, Sequences, FiniteSets, TLC

VARIABLES
    tree,           \* the files os.walk yields, in traversal order
    args,           \* the parsed command line of "analyze"
    client,         \* module-level OpenAI client: TRUE when initialised
    pc,             \* position in analyze_command
    routes,         \* analyze_routes' result (the dicts score_route mutates)
    scored_routes,  \* the list built at line 291 (same dicts as routes)
    repo_score,     \* the aggregate, in tenths (one decimal place), or None
    md_report,      \* what write_markdown_report wrote, or None
    json_report,    \* what write_json_report wrote, or None
    exit_code       \* the process' exit status, or None while running

vars == <<tree, args, client, pc, routes, scored_routes, repo_score,
          md_report, json_report, exit_code>>

None == "None"

\* ------------------------------------------------------------------ text

\* Python s[i] for 0 <= i < len(s).
At(s, i) == s[i + 1]

\* Python s[a:b] for 0 <= a <= len(s) and b >= 0.
Slice(s, a, b) == SubSeq(s, a + 1, IF b > Len(s) THEN Len(s) ELSE b)

UpperChars ==
    <<"A","B","C","D","E","F","G","H","I","J","K","L","M",
      "N","O","P","Q","R","S","T","U","V","W","X","Y","Z">>

LowerChars ==
    <<"a","b","c","d","e","f","g","h","i","j","k","l","m",
      "n","o","p","q","r","s","t","u","v","w","x","y","z">>

DigitChars == {"0","1","2","3","4","5","6","7","8","9"}

Range(s) == {s[k] : k \in DOMAIN s}

\* str.lower() and str.upper() on one character.
LowerChar(c) ==
    IF c \in Range(UpperChars)
    THEN LowerChars[CHOOSE k \in DOMAIN UpperChars : UpperChars[k] = c]
    ELSE c

UpperChar(c) ==
    IF c \in Range(LowerChars)
    THEN UpperChars[CHOOSE k \in DOMAIN LowerChars : LowerChars[k] = c]
    ELSE c

upper(s) == [k \in DOMAIN s |-> UpperChar(s[k])]

\* The regular expression classes \s, \d and \w.
IsSpace(c) == c \in {" ", "\t", "\n", "\r", "\f"}
IsDigit(c) == c \in DigitChars
IsWord(c) == c \in Range(UpperChars) \cup Range(LowerChars) \cup DigitChars \cup {"_"}
IsQuote(c) == c \in {"\"", "'"}

\* The literal word w stands in s at position p (case-sensitive).
LiteralAt(s, p, w) ==
    /\ p + Len(w) <= Len(s)
    /\ \A k \in 1..Len(w) : s[p + k] = w[k]

\* The same under re.IGNORECASE.
LiteralAtIgnoreCase(s, p, w) ==
    /\ p + Len(w) <= Len(s)
    /\ \A k \in 1..Len(w) : LowerChar(s[p + k]) = LowerChar(w[k])

\* The position after the longest run, from p on, of characters of a class:
\* where a greedy \s*, \w+ or [^"']+ stops.
RECURSIVE SkipSpace(_, _)
SkipSpace(s, p) ==
    IF p < Len(s) /\ IsSpace(At(s, p)) THEN SkipSpace(s, p + 1) ELSE p

RECURSIVE SkipWord(_, _)
SkipWord(s, p) ==
    IF p < Len(s) /\ IsWord(At(s, p)) THEN SkipWord(s, p + 1) ELSE p

RECURSIVE SkipDigits(_, _)
SkipDigits(s, p) ==
    IF p < Len(s) /\ IsDigit(At(s, p)) THEN SkipDigits(s, p + 1) ELSE p

RECURSIVE SkipNonQuote(_, _)
SkipNonQuote(s, p) ==
    IF p < Len(s) /\ ~IsQuote(At(s, p)) THEN SkipNonQuote(s, p + 1) ELSE p

\* str.strip(): leading and trailing whitespace removed.
RECURSIVE rstripEnd(_, _)
rstripEnd(s, e) ==
    IF e > 0 /\ IsSpace(At(s, e - 1)) THEN rstripEnd(s, e - 1) ELSE e

strip(s) ==
    LET a == SkipSpace(s, 0)
    IN  IF a = Len(s) THEN <<>> ELSE Slice(s, a, rstripEnd(s, Len(s)))

\* A Python None where the code has a "str | None".
NoneStr == <<None>>

\* ------------------------------------------------------------------ patterns

\* The alternatives of ROUTE_PATTERN's group 1, in the order the pattern tries them.
RouteVerbs ==
    << <<"g","e","t">>, <<"p","o","s","t">>, <<"p","u","t">>,
       <<"p","a","t","c","h">>, <<"d","e","l","e","t","e">>,
       <<"o","p","t","i","o","n","s">>, <<"h","e","a","d">>,
       <<"t","r","a","c","e">>, <<"r","o","u","t","e">> >>

\* ROUTE_PATTERN tried at position p: @ \w+ \. (verb) \s* \( , case-insensitive.
\* group1 is the verb as written in the source, end is match.end().
ROUTE_PATTERN_At(s, p) ==
    LET w == SkipWord(s, p + 1)
        verbs == {k \in DOMAIN RouteVerbs : LiteralAtIgnoreCase(s, w + 1, RouteVerbs[k])}
        fail == [ok |-> FALSE, group1 |-> <<>>, end |-> p]
    IN  IF ~(p < Len(s) /\ At(s, p) = "@") THEN fail
        ELSE IF ~(w > p + 1 /\ w < Len(s) /\ At(s, w) = ".") THEN fail
        ELSE IF verbs = {} THEN fail
        ELSE LET k == CHOOSE k \in verbs : \A j \in verbs : k <= j
                 e == w + 1 + Len(RouteVerbs[k])
                 q == SkipSpace(s, e)
             IN  IF q < Len(s) /\ At(s, q) = "("
                 THEN [ok |-> TRUE, group1 |-> Slice(s, w + 1, e), end |-> q + 1]
                 ELSE fail

\* ROUTE_PATTERN.finditer(content): the non-overlapping matches, left to right,
\* each search resuming where the previous match ended.
RECURSIVE finditer(_, _)
finditer(s, from) ==
    LET hits == {p \in from..(Len(s) - 1) : ROUTE_PATTERN_At(s, p).ok}
    IN  IF hits = {} THEN <<>>
        ELSE LET p == CHOOSE p \in hits : \A q \in hits : p <= q
                 m == ROUTE_PATTERN_At(s, p)
             IN  <<m>> \o finditer(s, m.end)

\* The pattern of extract_string_arg tried at position p:
\* keyword \s* = \s* ["'] ([^"']+) ["']. Yields group 1, or NoneStr.
KeywordPatternAt(s, p, keyword) ==
    LET q1 == SkipSpace(s, p + Len(keyword))
        q2 == SkipSpace(s, q1 + 1)
        q3 == SkipNonQuote(s, q2 + 1)
    IN  IF /\ LiteralAt(s, p, keyword)
           /\ q1 < Len(s) /\ At(s, q1) = "="
           /\ q2 < Len(s) /\ IsQuote(At(s, q2))
           /\ q3 > q2 + 1
           /\ q3 < Len(s) /\ IsQuote(At(s, q3))
        THEN Slice(s, q2 + 1, q3)
        ELSE NoneStr

\* The fallback pattern, anchored at the start: ^ \s* ["'] ([^"']+) ["'].
BarePattern(s) ==
    LET q0 == SkipSpace(s, 0)
        q1 == SkipNonQuote(s, q0 + 1)
    IN  IF /\ q0 < Len(s) /\ IsQuote(At(s, q0))
           /\ q1 > q0 + 1
           /\ q1 < Len(s) /\ IsQuote(At(s, q1))
        THEN Slice(s, q0 + 1, q1)
        ELSE NoneStr

PathKeyword == <<"p","a","t","h">>

extract_string_arg(arg_str, keyword) ==
    LET hits == {p \in 0..(Len(arg_str) - 1) :
                    KeywordPatternAt(arg_str, p, keyword) # NoneStr}
    IN  IF hits # {}
        THEN KeywordPatternAt(arg_str, CHOOSE p \in hits : \A q \in hits : p <= q, keyword)
        ELSE IF keyword = PathKeyword THEN BarePattern(arg_str)
        ELSE NoneStr

has_kwarg(arg_str, keyword) ==
    \E p \in 0..(Len(arg_str) - 1) :
        /\ LiteralAt(arg_str, p, keyword)
        /\ LET q == SkipSpace(arg_str, p + Len(keyword))
           IN  q < Len(arg_str) /\ At(arg_str, q) = "="

\* VERSION_PATTERN without re.IGNORECASE.
VERSION_PATTERN_CaseSensitive(path) ==
    \E p \in 0..(Len(path) - 1) :
        /\ At(path, p) = "/"
        /\ p + 1 < Len(path) /\ At(path, p + 1) = "v"
        /\ SkipDigits(path, p + 2) > p + 2

\* VERSION_PATTERN.search(path): / v \d+ anywhere, case-insensitive.
VERSION_PATTERN(path) ==
    \E p \in 0..(Len(path) - 1) :
        /\ At(path, p) = "/"
        /\ p + 1 < Len(path) /\ LowerChar(At(path, p + 1)) = "v"
        /\ SkipDigits(path, p + 2) > p + 2

\* ------------------------------------------------------------------ extractor

\* ParenScan with the nesting forgotten: the scan stops at the first ")".
RECURSIVE ParenScan_Flat(_, _, _)
ParenScan_Flat(content, i, paren_depth) ==
    IF i < Len(content) /\ paren_depth > 0
    THEN ParenScan_Flat(content, i + 1,
                        IF At(content, i) = ")" THEN paren_depth - 1 ELSE paren_depth)
    ELSE i

\* The while loop of lines 103-108, from position i with counter paren_depth:
\* the value of i when the loop ends.
RECURSIVE ParenScan(_, _, _)
ParenScan(content, i, paren_depth) ==
    IF i < Len(content) /\ paren_depth > 0
    THEN ParenScan(content, i + 1,
                   IF At(content, i) = "(" THEN paren_depth + 1
                   ELSE IF At(content, i) = ")" THEN paren_depth - 1
                   ELSE paren_depth)
    ELSE i

\* Lines 98-109: the argument text of the match whose match.end() is start_pos.
DecoratorArgs(content, start_pos) ==
    LET i == ParenScan(content, start_pos, 1)
    IN  strip(Slice(content, start_pos, i - 1))

KwResponseModel == <<"r","e","s","p","o","n","s","e","_","m","o","d","e","l">>
KwTags == <<"t","a","g","s">>
KwSummary == <<"s","u","m","m","a","r","y">>
KwDescription == <<"d","e","s","c","r","i","p","t","i","o","n">>

UNKNOWN == <<"U","N","K","N","O","W","N">>

\* Lines 111-113: the path of a declaration.
ResolvePath(decorator_args) ==
    LET path == extract_string_arg(decorator_args, PathKeyword)
    IN  IF path = NoneStr \/ path = <<>> THEN UNKNOWN ELSE path

\* Lines 98-127: the record appended for one match in one file.
RouteRecord(file_name, content, match) ==
    LET decorator_args == DecoratorArgs(content, match.end)
        path == ResolvePath(decorator_args)
    IN  [method |-> upper(match.group1),
         path |-> path,
         file |-> file_name,
         versioned |-> VERSION_PATTERN(path),
         has_response_model |-> has_kwarg(decorator_args, KwResponseModel),
         has_tags |-> has_kwarg(decorator_args, KwTags),
         has_summary |-> has_kwarg(decorator_args, KwSummary),
         has_description |-> has_kwarg(decorator_args, KwDescription),
         decorator_args |-> decorator_args]

\* A byte that is not valid UTF-8 in a file's bytes.
BadByte == "<0xFF>"

\* Path.read_text(encoding="utf-8", errors="ignore") on a file that can be
\* read: the bytes that do not decode are dropped, the others kept.
read_text(file) == SelectSeq(file.bytes, LAMBDA b : b # BadByte)

PySuffix == <<".","p","y">>

endswith(name, suffix) ==
    /\ Len(name) >= Len(suffix)
    /\ SubSeq(name, Len(name) - Len(suffix) + 1, Len(name)) = suffix

\* FileRoutes with a strict decoder: a file holding a byte that does not
\* decode raises in read_text and is skipped like an unreadable one.
FileRoutes_Strict(file) ==
    IF ~endswith(file.name, PySuffix) THEN <<>>
    ELSE IF ~file.readable \/ (\E i \in DOMAIN file.bytes : file.bytes[i] = BadByte) THEN <<>>
    ELSE LET content == read_text(file)
             matches == finditer(content, 0)
         IN  [k \in DOMAIN matches |-> RouteRecord(file.name, content, matches[k])]

\* Lines 86-127 for one file: nothing for a file without the .py suffix,
\* nothing for a file whose read raises, else one record per match.
FileRoutes(file) ==
    IF ~endswith(file.name, PySuffix) THEN <<>>
    ELSE IF ~file.readable THEN <<>>
    ELSE LET content == read_text(file)
             matches == finditer(content, 0)
         IN  [k \in DOMAIN matches |-> RouteRecord(file.name, content, matches[k])]

\* analyze_routes over the files of the walk, in traversal order.
RECURSIVE analyze_routes(_)
analyze_routes(files) ==
    IF files = <<>> THEN <<>>
    ELSE FileRoutes(Head(files)) \o analyze_routes(Tail(files))

\* ------------------------------------------------------------------ scorer

BaseScore == 100
PenaltyVersioning == 20
PenaltyResponseModel == 25
PenaltyTags == 10
PenaltySummary == 10
PenaltyDescription == 5
ScoreFloor == 30

MsgVersioning == "Missing API versioning (e.g., /v1/, /v2/)"
MsgResponseModel == "Missing response_model (critical for typing & docs)"
MsgTags == "Missing tags= for OpenAPI grouping"
MsgSummary == "Missing summary= for endpoint title"
MsgDescription == "Missing description= for details"

\* Penalize with the test inverted: the rule fires when the flag is true.
Penalize_Inverted(acc, flag, n, msg) ==
    IF flag
    THEN [score |-> acc.score - n, penalties |-> Append(acc.penalties, msg)]
    ELSE acc

\* Penalize with the description put first instead of appended.
Penalize_Prepend(acc, flag, n, msg) ==
    IF ~flag
    THEN [score |-> acc.score - n, penalties |-> <<msg>> \o acc.penalties]
    ELSE acc

\* One "if not route[flag]: score -= n; penalties.append(msg)" of score_route.
Penalize(acc, flag, n, msg) ==
    IF ~flag
    THEN [score |-> acc.score - n, penalties |-> Append(acc.penalties, msg)]
    ELSE acc

Max(a, b) == IF a >= b THEN a ELSE b

\* score_route: the record with its score and penalties set. (advised is the
\* model's "advice" key: FALSE until analyze_command sets r["advice"].)
score_route(route) ==
    LET a0 == [score |-> BaseScore, penalties |-> <<>>]
        a1 == Penalize(a0, route.versioned, PenaltyVersioning, MsgVersioning)
        a2 == Penalize(a1, route.has_response_model, PenaltyResponseModel, MsgResponseModel)
        a3 == Penalize(a2, route.has_tags, PenaltyTags, MsgTags)
        a4 == Penalize(a3, route.has_summary, PenaltySummary, MsgSummary)
        a5 == Penalize(a4, route.has_description, PenaltyDescription, MsgDescription)
    IN  [method |-> route.method,
         path |-> route.path,
         file |-> route.file,
         versioned |-> route.versioned,
         has_response_model |-> route.has_response_model,
         has_tags |-> route.has_tags,
         has_summary |-> route.has_summary,
         has_description |-> route.has_description,
         decorator_args |-> route.decorator_args,
         score |-> Max(a5.score, ScoreFloor),
         penalties |-> a5.penalties,
         advised |-> FALSE]

\* ------------------------------------------------------------------ command

EXIT_OK == 0
EXIT_SCORE_BELOW_THRESHOLD == 1
EXIT_INVALID_REPO == 2
EXIT_INTERNAL_ERROR == 3
DEFAULT_AI_LIMIT == 5

\* An optional value (an int or a report that may be None): <<>> or <<v>>.
Nothing == <<>>
Some(v) == <<v>>
Value(opt) == opt[1]

RECURSIVE SumScores(_)
SumScores(rs) == IF rs = <<>> THEN 0 ELSE Head(rs).score + SumScores(Tail(rs))

\* round(total / n, 1), in tenths. Python rounds the quotient to the nearest
\* tenth and an exact tie to the even tenth. (The scores are multiples of 5, so
\* a tie is a quotient ending in .25 or .75, which a float holds exactly,
\* unless n is a multiple of 20.)
RoundTenths(total, n) ==
    LET q == (10 * total) \div n
        r == (10 * total) % n
    IN  IF 2 * r < n THEN q
        ELSE IF 2 * r > n THEN q + 1
        ELSE IF q % 2 = 0 THEN q ELSE q + 1

\* Line 302.
ai_enabled == ~args.no_ai /\ client

\* Lines 305-309 from the k-th route on, with `remaining` advice calls left:
\* advise_route always returns a text, so r["advice"] is set for the first
\* ai_limit routes that score below 100.
RECURSIVE Advised(_, _)
Advised(rs, remaining) ==
    IF rs = <<>> THEN <<>>
    ELSE IF Head(rs).score < BaseScore /\ remaining > 0
         THEN <<[Head(rs) EXCEPT !.advised = TRUE]>> \o Advised(Tail(rs), remaining - 1)
         ELSE <<Head(rs)>> \o Advised(Tail(rs), remaining)

\* Lines 279-282: the repository path is no directory.
InvalidRepo ==
    /\ pc = "start"
    /\ ~args.repo_is_dir
    /\ pc' = "exited"
    /\ exit_code' = Some(EXIT_INVALID_REPO)
    /\ UNCHANGED <<tree, args, client, routes, scored_routes, repo_score,
                   md_report, json_report>>

\* Line 286.
Scan ==
    /\ pc = "start"
    /\ args.repo_is_dir
    /\ routes' = analyze_routes(tree)
    /\ pc' = "scanned"
    /\ UNCHANGED <<tree, args, client, scored_routes, repo_score,
                   md_report, json_report, exit_code>>

\* NoRoutes without the early exit: the mean of no scores taken as 0 and the
\* command carried on.
NoRoutes_ZeroAverage ==
    /\ pc = "scanned"
    /\ routes = <<>>
    /\ repo_score' = Some(0)
    /\ pc' = "summary"
    /\ UNCHANGED <<tree, args, client, routes, scored_routes,
                   md_report, json_report, exit_code>>

\* Lines 287-289.
NoRoutes ==
    /\ pc = "scanned"
    /\ routes = <<>>
    /\ pc' = "exited"
    /\ exit_code' = Some(EXIT_INTERNAL_ERROR)
    /\ UNCHANGED <<tree, args, client, routes, scored_routes, repo_score,
                   md_report, json_report>>

\* Lines 291-296. score_route sets the two keys on the dicts of routes, so
\* routes and scored_routes hold the same records afterwards.
Score ==
    /\ pc = "scanned"
    /\ routes # <<>>
    /\ LET scored == [k \in DOMAIN routes |-> score_route(routes[k])]
       IN  /\ scored_routes' = scored
           /\ routes' = scored
           /\ repo_score' = Some(RoundTenths(SumScores(scored), Len(scored)))
    /\ pc' = "summary"
    /\ UNCHANGED <<tree, args, client, md_report, json_report, exit_code>>

\* Lines 298-299.
SummaryOnly ==
    /\ pc = "summary"
    /\ args.summary_only
    /\ pc' = "exited"
    /\ exit_code' = Some(EXIT_OK)
    /\ UNCHANGED <<tree, args, client, routes, scored_routes, repo_score,
                   md_report, json_report>>

\* Lines 301-309.
Advise ==
    /\ pc = "summary"
    /\ ~args.summary_only
    /\ LET advised == IF ai_enabled THEN Advised(scored_routes, args.ai_limit)
                      ELSE scored_routes
       IN  /\ scored_routes' = advised
           /\ routes' = advised
    /\ pc' = "output"
    /\ UNCHANGED <<tree, args, client, repo_score, md_report, json_report, exit_code>>

\* Lines 312-317 without --output: the report is written to the default path.
WriteMarkdown ==
    /\ pc = "output"
    /\ ~args.output
    /\ md_report' = Some([score |-> Value(repo_score), routes |-> scored_routes,
                          ai_enabled |-> ai_enabled])
    /\ pc' = "json"
    /\ UNCHANGED <<tree, args, client, routes, scored_routes, repo_score,
                   json_report, exit_code>>

\* Lines 312-317 with --output: md_path is the option's str, the report is
\* written, then md_path.resolve() raises AttributeError, which line 377
\* turns into EXIT_INTERNAL_ERROR.
WriteMarkdownToOutput ==
    /\ pc = "output"
    /\ args.output
    /\ md_report' = Some([score |-> Value(repo_score), routes |-> scored_routes,
                          ai_enabled |-> ai_enabled])
    /\ pc' = "exited"
    /\ exit_code' = Some(EXIT_INTERNAL_ERROR)
    /\ UNCHANGED <<tree, args, client, routes, scored_routes, repo_score,
                   json_report>>

\* Lines 319-322.
WriteJson ==
    /\ pc = "json"
    /\ json_report' = IF args.json
                      THEN Some([score |-> Value(repo_score), routes |-> scored_routes])
                      ELSE json_report
    /\ pc' = "threshold"
    /\ UNCHANGED <<tree, args, client, routes, scored_routes, repo_score,
                   md_report, exit_code>>

\* Line 325: repo_score < args.fail_under, the score being in tenths.
BelowThreshold ==
    /\ args.fail_under # Nothing
    /\ Value(repo_score) < 10 * Value(args.fail_under)

\* Lines 325-327.
FailUnder ==
    /\ pc = "threshold"
    /\ BelowThreshold
    /\ pc' = "exited"
    /\ exit_code' = Some(EXIT_SCORE_BELOW_THRESHOLD)
    /\ UNCHANGED <<tree, args, client, routes, scored_routes, repo_score,
                   md_report, json_report>>

\* Lines 329-330.
Complete ==
    /\ pc = "threshold"
    /\ ~BelowThreshold
    /\ pc' = "exited"
    /\ exit_code' = Some(EXIT_OK)
    /\ UNCHANGED <<tree, args, client, routes, scored_routes, repo_score,
                   md_report, json_report>>

Next ==
    \/ InvalidRepo
    \/ Scan
    \/ NoRoutes
    \/ Score
    \/ SummaryOnly
    \/ Advise
    \/ WriteMarkdown
    \/ WriteMarkdownToOutput
    \/ WriteJson
    \/ FailUnder
    \/ Complete

\* ------------------------------------------------------------------ inputs

MaxScanFrags == 4
MaxKwFrags == 3
MaxPathFrags == 4
MaxFiles == 2

RECURSIVE Flatten(_)
Flatten(ss) == IF ss = <<>> THEN <<>> ELSE Head(ss) \o Flatten(Tail(ss))

\* The sequences of at most n fragments of F.
FragSeqs(F, n) == UNION {[1..k -> F] : k \in 0..n}

PyFile(name, bytes) == [name |-> name, readable |-> TRUE, bytes |-> bytes]

\* The walks of at most n files of F: a relative path names one file.
Walks(F, n) ==
    {t \in FragSeqs(F, n) : \A i, j \in DOMAIN t : t[i].name = t[j].name => i = j}

\* Argument lists with nested, closed, unclosed and multi-line parentheses:
\* @app.get( followed by pieces of text.
ScanDecorator == <<"@","a","p","p",".","g","e","t","(">>
ScanFrags ==
    { <<"(","a",",","\n","b",")">>,
      <<"(">>,
      <<")">>,
      <<" ">>,
      <<"\n">>,
      <<"y">> }
ScanContents ==
    {ScanDecorator \o Flatten(fs) : fs \in FragSeqs(ScanFrags, MaxScanFrags)}

\* Argument lists built of keyword assignments, a keyword name without "=",
\* and prefixes that make a longer identifier of the name that follows.
KwDecorator == <<"@","r","o","u","t","e","r",".","p","o","s","t","(">>
KwFrags ==
    { <<"r","e","s","p","o","n","s","e","_","m","o","d","e","l","=","M","(",")">>,
      <<"t","a","g","s"," ","="," ","[","]">>,
      <<"s","u","m","m","a","r","y","=","\"","\"">>,
      <<"d","e","s","c","r","i","p","t","i","o","n","=","\n","\"","\"">>,
      <<"r","e","s","p","o","n","s","e","_">>,
      <<"o","p","e","n","a","p","i","_">>,
      <<","," ">>,
      <<"t","a","g","s",",">> }
KwContents ==
    {KwDecorator \o Flatten(fs) \o <<")">> : fs \in FragSeqs(KwFrags, MaxKwFrags)}

\* Argument lists built of quoted literals and path= assignments.
PathDecorator == <<"@","a","p","i",".","P","u","t"," ","(">>
PathFrags ==
    { <<"p","a","t","h","=">>,
      <<","," ">>,
      <<"\"","/","v","1","/","u","s","e","r","s","\"">>,
      <<"'","/","u","s","e","r","s","'">>,
      <<"\"","/","i","t","'","s","\"">>,
      <<"x">> }
PathContents ==
    {PathDecorator \o Flatten(fs) \o <<")">> : fs \in FragSeqs(PathFrags, MaxPathFrags)}

\* Well-formed declarations: a verb, a first argument and any subset of the
\* four keyword arguments.
RubricVerbs ==
    { <<"g","e","t">>,
      <<"D","E","L","E","T","E">> }
RubricPaths ==
    { <<"\"","/","v","1","/","u","s","e","r","s","\"">>,
      <<"\"","/","u","s","e","r","s","\"">>,
      <<"'","/","v","1","2","/","i","t","e","m","s","'">>,
      <<"\"","/","a","p","i","/","V","2","/","x","\"">>,
      <<"\"","/","v","x","/","v","\"">>,
      <<"\"","v","1","/","x","\"">>,
      <<"p","r","e","f","i","x"," ","+"," ","n","a","m","e">> }
RubricKwargs ==
    << <<","," ","r","e","s","p","o","n","s","e","_","m","o","d","e","l","=","O","u","t">>,
       <<","," ","t","a","g","s","=","[","\"","t","\"","]">>,
       <<",","\n"," ","s","u","m","m","a","r","y","=","\"","s","\"">>,
       <<","," ","d","e","s","c","r","i","p","t","i","o","n"," ","="," ","\"","d","\"">> >>
RubricArgs(path, present) ==
    path \o Flatten([k \in DOMAIN RubricKwargs |->
                        IF k \in present THEN RubricKwargs[k] ELSE <<>>])
RubricContents ==
    {<<"@","a",".">> \o verb \o <<"(">> \o RubricArgs(path, present) \o <<")","\n">> :
        verb \in RubricVerbs, path \in RubricPaths, present \in SUBSET DOMAIN RubricKwargs}

NameMain == <<"m","a","i","n",".","p","y">>

\* The files a walk may yield: no declaration, a complete one, a bare one, two
\* in one file, a file whose read raises, a file with a byte that does not
\* decode, and a file without the .py suffix.
FileNone == PyFile(<<"u","t","i","l",".","p","y">>, <<"x"," ","="," ","1","\n">>)
FileGood == PyFile(<<"g","o","o","d",".","p","y">>,
    <<"@","a","p","p",".","g","e","t","(","\"","/","v","1","/","a","\"",","," ","r","e","s","p","o","n","s","e","_","m","o","d","e","l","=","M",","," ","t","a","g","s","=","t",","," ","s","u","m","m","a","r","y","=","s",","," ","d","e","s","c","r","i","p","t","i","o","n","=","d",")">>)
FileBare == PyFile(<<"b","a","r","e",".","p","y">>, <<"@","r",".","p","o","s","t","(","\"","/","b","\"",")">>)
FileTwo == PyFile(<<"t","w","o",".","p","y">>,
    <<"@","r",".","g","e","t","(","\"","/","v","2","/","c","\"",","," ","t","a","g","s","=","t",")","\n","@","r",".","p","u","t","(","\"","/","c","\"",","," ","r","e","s","p","o","n","s","e","_","m","o","d","e","l","=","M",","," ","s","u","m","m","a","r","y","=","s",")">>)
FileLocked == [name |-> <<"l","o","c","k","e","d",".","p","y">>, readable |-> FALSE,
               bytes |-> <<"@","r",".","p","o","s","t","(","\"","/","l","\"",")">>]
FileBinary == PyFile(<<"b","i","n",".","p","y">>,
    <<"@","r",".","g","e","t","(","\"","/","v","1","/">> \o <<BadByte>> \o <<"e","\"",")">>)
FileText == PyFile(<<"n","o","t","e","s",".","t","x","t">>, <<"@","r",".","g","e","t","(","\"","/","n","\"",")">>)

CommandFiles == {FileNone, FileGood, FileBare, FileTwo}
WalkFiles == CommandFiles \cup {FileLocked, FileBinary, FileText}

DefaultArgs ==
    [repo_is_dir |-> TRUE, summary_only |-> FALSE, no_ai |-> FALSE,
     fail_under |-> Nothing, output |-> FALSE, json |-> FALSE,
     ai_limit |-> DEFAULT_AI_LIMIT]

\* The command lines: every combination of the flags, --fail-under absent or
\* one of three thresholds, --ai-limit 1 or its default.
CommandArgs ==
    [repo_is_dir : {TRUE}, summary_only : BOOLEAN, no_ai : BOOLEAN,
     fail_under : {Nothing, Some(30), Some(65), Some(100)},
     output : BOOLEAN, json : BOOLEAN, ai_limit : {1, DEFAULT_AI_LIMIT}]

\* One file holding one declaration site, audited with the default options.
InitDeclaration ==
    /\ tree \in {<<PyFile(NameMain, c)>> :
                    c \in ScanContents \cup KwContents \cup PathContents \cup RubricContents}
    /\ args = DefaultArgs
    /\ client = FALSE

\* A walk over several files of every kind, with the default options.
InitWalk ==
    /\ tree \in Walks(WalkFiles, MaxFiles)
    /\ args = DefaultArgs
    /\ client = FALSE

\* A small repository audited with every command line.
InitCommand ==
    /\ tree \in Walks(CommandFiles, MaxFiles)
    /\ args \in CommandArgs
    /\ client \in BOOLEAN

\* A repository path that is no directory.
InitInvalid ==
    /\ tree = <<>>
    /\ args \in {[DefaultArgs EXCEPT !.repo_is_dir = FALSE, !.summary_only = so] :
                    so \in BOOLEAN}
    /\ client = FALSE

Init ==
    /\ pc = "start"
    /\ routes = <<>>
    /\ scored_routes = <<>>
    /\ repo_score = Nothing
    /\ md_report = Nothing
    /\ json_report = Nothing
    /\ exit_code = Nothing
    /\ \/ InitDeclaration
       \/ InitWalk
       \/ InitCommand
       \/ InitInvalid

Spec == Init /\ [][Next]_vars

\* ------------------------------------------------------------------ scorer claims

\* The rule table of the scorer: flag, penalty, in the table's order.
FlagOf(r, name) ==
    CASE name = "versioned" -> r.versioned
      [] name = "has_response_model" -> r.has_response_model
      [] name = "has_tags" -> r.has_tags
      [] name = "has_summary" -> r.has_summary
      [] name = "has_description" -> r.has_description

RuleTable ==
    << [flag |-> "versioned", penalty |-> 20, msg |-> MsgVersioning],
       [flag |-> "has_response_model", penalty |-> 25, msg |-> MsgResponseModel],
       [flag |-> "has_tags", penalty |-> 10, msg |-> MsgTags],
       [flag |-> "has_summary", penalty |-> 10, msg |-> MsgSummary],
       [flag |-> "has_description", penalty |-> 5, msg |-> MsgDescription] >>

RECURSIVE SumPenalties(_, _)
SumPenalties(r, rules) ==
    IF rules = <<>> THEN 0
    ELSE (IF FlagOf(r, Head(rules).flag) THEN 0 ELSE Head(rules).penalty)
         + SumPenalties(r, Tail(rules))

TableScore(r) ==
    LET raw == 100 - SumPenalties(r, RuleTable)
    IN  IF raw > 30 THEN raw ELSE 30

SameFlags(r, q) ==
    \A k \in DOMAIN RuleTable : FlagOf(r, RuleTable[k].flag) = FlagOf(q, RuleTable[k].flag)

Scored == {scored_routes[k] : k \in DOMAIN scored_routes}

\* C1: every scored record has score = max(100 - sum of the penalties
\* (20, 25, 10, 10, 5) of its false flags, 30), an integer in [30, 100], and two
\* records with the same five flags have the same score.
C1_ScoreIsTableScore ==
    /\ \A r \in Scored : r.score = TableScore(r) /\ r.score \in 30..100
    /\ \A r, q \in Scored : SameFlags(r, q) => r.score = q.score

\* C1 witness: two scored records of one run that differ in their flags, the
\* one with all five flags false scored 30.
C1_Witness ==
    \E r, q \in Scored :
        /\ \A k \in DOMAIN RuleTable : ~FlagOf(r, RuleTable[k].flag)
        /\ r.score = 30
        /\ q.score = 100
        /\ r.method # q.method

\* The descriptions the table gives a record: one per false flag, table order.
TablePenalties(r) ==
    LET missing == SelectSeq(RuleTable, LAMBDA e : ~FlagOf(r, e.flag))
    IN  [k \in DOMAIN missing |-> missing[k].msg]

\* C2: the penalties of every scored record are exactly the descriptions of its
\* false flags, once each, in the order versioning, response model, tags,
\* summary, description.
C2_PenaltiesInTableOrder ==
    \A r \in Scored : r.penalties = TablePenalties(r)

\* C2 witness: a record with only summary and description missing, whose
\* penalties are those two descriptions in that order.
C2_Witness ==
    \E r \in Scored :
        /\ r.versioned /\ r.has_response_model /\ r.has_tags
        /\ ~r.has_summary /\ ~r.has_description
        /\ r.penalties = <<MsgSummary, MsgDescription>>

\* ------------------------------------------------------------------ extractor claims

\* The declaration sites of a walk, in the order of their records: for each
\* file that is scanned, the text scanned and, for each match, the position
\* just after its opening parenthesis.
FileSites(file) ==
    IF endswith(file.name, PySuffix) /\ file.readable
    THEN LET content == read_text(file)
             matches == finditer(content, 0)
         IN  [k \in DOMAIN matches |->
                 [file |-> file.name, content |-> content, open |-> matches[k].end]]
    ELSE <<>>

Sites == Flatten([k \in DOMAIN tree |-> FileSites(tree[k])])

\* analyze_routes has just returned: routes holds the records it built.
Scanned == pc = "scanned"

\* How many more ")" than "(" the text holds from `open` through position i.
Excess(s, open, i) ==
    Cardinality({h \in open..i : At(s, h) = ")"})
        - Cardinality({h \in open..i : At(s, h) = "("})

Least(S) == CHOOSE x \in S : \A y \in S : x <= y
Greatest(S) == CHOOSE x \in S : \A y \in S : x >= y

\* The positions that close the parenthesis opened just before site.open; the
\* first of them is the closing parenthesis that matches it.
Closers(site) ==
    {j \in site.open..(Len(site.content) - 1) : Excess(site.content, site.open, j) = 1}

Closed(site) == Closers(site) # {}

MatchingClose(site) == Least(Closers(site))

\* t is s without its leading and trailing whitespace.
IsTrimOf(t, s) ==
    LET solid == {i \in 0..(Len(s) - 1) : ~IsSpace(At(s, i))}
    IN  IF solid = {} THEN t = <<>>
        ELSE t = Slice(s, Least(solid), Greatest(solid) + 1)

Contains(s, c) == \E i \in DOMAIN s : s[i] = c

\* C3, as stated: for every declaration whose argument list is closed, the
\* recorded argument text is the text strictly between the opening parenthesis
\* and its matching closing parenthesis.
C3_ArgsAreTextBetweenParens ==
    Scanned =>
        LET sites == Sites
        IN  /\ Len(routes) = Len(sites)
            /\ \A k \in DOMAIN routes :
                  LET site == sites[k]
                  IN  Closed(site) =>
                          routes[k].decorator_args =
                              Slice(site.content, site.open, MatchingClose(site))

\* C3, amended: for every declaration whose argument list is closed, the
\* recorded argument text is the text strictly between the opening parenthesis
\* and its matching closing parenthesis with leading and trailing whitespace
\* removed; nested parentheses and line breaks inside it are kept.
C3_ArgsAreTrimmedTextBetweenParens ==
    Scanned =>
        LET sites == Sites
        IN  /\ Len(routes) = Len(sites)
            /\ \A k \in DOMAIN routes :
                  LET site == sites[k]
                  IN  Closed(site) =>
                          IsTrimOf(routes[k].decorator_args,
                                   Slice(site.content, site.open, MatchingClose(site)))

\* C3 witness: a closed argument list that holds a nested parenthesised
\* expression and a line break, is followed by more text, and is recorded
\* without its surrounding whitespace.
C3_Witness ==
    /\ Scanned
    /\ LET sites == Sites
       IN  \E k \in DOMAIN routes :
              LET site == sites[k]
              IN  /\ Closed(site)
                  /\ MatchingClose(site) < Len(site.content) - 1
                  /\ Contains(routes[k].decorator_args, "(")
                  /\ Contains(routes[k].decorator_args, "\n")
                  /\ routes[k].decorator_args #
                         Slice(site.content, site.open, MatchingClose(site))

\* C4: for every declaration whose opening parenthesis is never closed, one
\* record is emitted and its argument text is the file's text from just after
\* the opening parenthesis through the last character of the file (surrounding
\* whitespace aside).
C4_UnclosedArgsRunToEndOfFile ==
    Scanned =>
        LET sites == Sites
        IN  /\ Len(routes) = Len(sites)
            /\ \A k \in DOMAIN routes :
                  LET site == sites[k]
                  IN  ~Closed(site) =>
                          IsTrimOf(routes[k].decorator_args,
                                   Slice(site.content, site.open, Len(site.content)))

\* The keyword argument `name` is assigned in text s: the identifier `name`
\* (not the tail of a longer identifier), optional whitespace, "=".
AssignsKeyword(s, name) ==
    \E p \in 0..(Len(s) - 1) :
        /\ LiteralAt(s, p, name)
        /\ p = 0 \/ ~IsWord(At(s, p - 1))
        /\ LET rest == {i \in (p + Len(name))..(Len(s) - 1) : ~IsSpace(At(s, i))}
           IN  rest # {} /\ At(s, Least(rest)) = "="

\* C5: each of the four flags of a record is true exactly when its argument
\* text assigns the keyword argument of exactly that name.
C5_FlagIffKeywordAssigned ==
    Scanned =>
        \A k \in DOMAIN routes :
            LET r == routes[k]
            IN  /\ r.has_response_model <=> AssignsKeyword(r.decorator_args, KwResponseModel)
                /\ r.has_tags <=> AssignsKeyword(r.decorator_args, KwTags)
                /\ r.has_summary <=> AssignsKeyword(r.decorator_args, KwSummary)
                /\ r.has_description <=> AssignsKeyword(r.decorator_args, KwDescription)

\* A quoted literal opens at position q of s: a quote character, a non-empty
\* content, and the next quote character of the same kind.
LiteralEnds(s, q) == {e \in (q + 1)..(Len(s) - 1) : At(s, e) = At(s, q)}

IsLiteralAt(s, q) ==
    /\ q < Len(s) /\ IsQuote(At(s, q))
    /\ LiteralEnds(s, q) # {}
    /\ Least(LiteralEnds(s, q)) > q + 1

LiteralContent(s, q) == Slice(s, q + 1, Least(LiteralEnds(s, q)))

\* The positions of the quoted literals that text s assigns with path=.
PathAssignments(s) ==
    {q \in 0..(Len(s) - 1) :
        /\ IsLiteralAt(s, q)
        /\ \E p \in 0..(q - 1) : \E e \in (p + 4)..(q - 1) :
              /\ LiteralAt(s, p, PathKeyword)
              /\ At(s, e) = "="
              /\ \A i \in ((p + 4)..(q - 1)) \ {e} : IsSpace(At(s, i))}

\* C6: the path of a record is the content of the quoted literal its argument
\* text assigns with path=, else the content of the quoted literal the text
\* starts with, else "UNKNOWN"; method and path are never empty.
C6_PathResolution ==
    Scanned =>
        \A k \in DOMAIN routes :
            LET r == routes[k]
                s == r.decorator_args
            IN  /\ r.path = (IF PathAssignments(s) # {}
                             THEN LiteralContent(s, Least(PathAssignments(s)))
                             ELSE IF IsLiteralAt(s, 0) THEN LiteralContent(s, 0)
                             ELSE UNKNOWN)
                /\ r.path # <<>> /\ r.path # NoneStr
                /\ r.method # <<>>

\* The path holds a version segment: "/", "v" or "V", a digit.
HasVersionSegment(path) ==
    \E i \in 1..(Len(path) - 2) :
        /\ path[i] = "/"
        /\ path[i + 1] \in {"v", "V"}
        /\ path[i + 2] \in DigitChars

\* C7: the versioned flag of every record is true exactly when its path holds
\* a version segment; a scored record whose path is "UNKNOWN" is not versioned,
\* carries the versioning description exactly once and has lost the 20 points
\* of the versioning rule exactly once.
C7_VersionedIffVersionSegment ==
    /\ \A k \in DOMAIN routes : routes[k].versioned <=> HasVersionSegment(routes[k].path)
    /\ \A r \in Scored :
          r.path = UNKNOWN =>
              /\ ~r.versioned
              /\ Cardinality({i \in DOMAIN r.penalties : r.penalties[i] = MsgVersioning}) = 1
              /\ LET others == (IF r.has_response_model THEN 0 ELSE 25)
                               + (IF r.has_tags THEN 0 ELSE 10)
                               + (IF r.has_summary THEN 0 ELSE 10)
                               + (IF r.has_description THEN 0 ELSE 5)
                 IN  r.score = (IF 100 - 20 - others > 30 THEN 100 - 20 - others ELSE 30)

\* C7 witness: a scored record with the sentinel path that has every keyword,
\* so that the versioning rule alone lowers its score to 80.
C7_Witness ==
    \E r \in Scored :
        /\ r.path = UNKNOWN
        /\ ~r.versioned
        /\ r.penalties = <<MsgVersioning>>
        /\ r.score = 80

\* ------------------------------------------------------------------ walk claims

HasBadByte(file) == \E i \in DOMAIN file.bytes : file.bytes[i] = BadByte

\* The walk without the files whose read raises, and with the bytes that do
\* not decode removed from the others.
Readable(files) ==
    LET kept == SelectSeq(files, LAMBDA f : f.readable)
    IN  [k \in DOMAIN kept |->
            [kept[k] EXCEPT !.bytes = SelectSeq(kept[k].bytes, LAMBDA b : b # BadByte)]]

\* C9, as stated: a file that cannot be decoded as text (its read raises, or
\* it holds bytes that are not valid UTF-8) yields no record.
C9_UndecodableFileYieldsNoRecord ==
    Scanned =>
        \A i \in DOMAIN tree :
            (~tree[i].readable \/ HasBadByte(tree[i])) =>
                \A k \in DOMAIN routes : routes[k].file # tree[i].name

\* C9, amended: a file whose read raises is skipped silently (no record names
\* it, and the records of the other files are those of the same walk without
\* it, in the same order); a file holding bytes that are not valid UTF-8 is
\* not skipped: it is scanned as its text without those bytes.
C9_UnreadableFileSkipped ==
    Scanned =>
        /\ \A i \in DOMAIN tree :
              ~tree[i].readable => \A k \in DOMAIN routes : routes[k].file # tree[i].name
        /\ routes = analyze_routes(Readable(tree))

\* C9 witness: a walk over a file whose read raises and a file with a byte
\* that does not decode, which yields a record for the second file only.
C9_Witness ==
    /\ Scanned
    /\ \E i, j \in DOMAIN tree :
          /\ ~tree[i].readable
          /\ tree[j].readable /\ HasBadByte(tree[j])
          /\ i < j
          /\ \E k \in DOMAIN routes : routes[k].file = tree[j].name
    /\ Len(routes) = 1

\* ------------------------------------------------------------------ command claims

RouteScores == {scored_routes[k].score : k \in DOMAIN scored_routes}

\* C8: when the scan finds no route, nothing is scored, no aggregate is
\* computed, no report is written and the command exits with a non-zero
\* status; whenever an aggregate exists the routes are not empty and the
\* aggregate lies between the smallest and the largest score.
C8_EmptyScanFailsFast ==
    /\ (pc # "start" /\ args.repo_is_dir /\ routes = <<>>) =>
          /\ scored_routes = <<>>
          /\ repo_score = Nothing
          /\ md_report = Nothing /\ json_report = Nothing
          /\ pc \in {"scanned", "exited"}
          /\ pc = "exited" => (exit_code # Nothing /\ Value(exit_code) # 0)
    /\ repo_score # Nothing =>
          /\ routes # <<>>
          /\ \E lo, hi \in RouteScores :
                /\ \A x \in RouteScores : lo <= x /\ x <= hi
                /\ 10 * lo <= Value(repo_score)
                /\ Value(repo_score) <= 10 * hi

\* C8 witness: a walk over files without any declaration has ended with the
\* internal-error status and nothing scored or written.
C8_Witness ==
    /\ pc = "exited"
    /\ args.repo_is_dir
    /\ tree # <<>>
    /\ routes = <<>>
    /\ exit_code = Some(3)
    /\ repo_score = Nothing

\* C10: when --fail-under is given, a route was found and the score is below
\* the threshold, the command exits with a non-zero status, whatever the other
\* options; it exits with status 0 only when the score is not below the
\* threshold or no threshold was given.
C10_BelowThresholdExitsNonZero ==
    (pc = "exited" /\ repo_score # Nothing /\ args.fail_under # Nothing
        /\ Value(repo_score) < 10 * Value(args.fail_under))
    => Value(exit_code) # 0

====
